---- MODULE Spec2Model ----
(***************************************************************************)
(* update-passwd 3.1.1 (src/update-passwd.c, lines 1-1001): the record     *)
(* lists, the reserved-identity policy, the reconciler and the commit      *)
(* protocol, as a state machine over main()'s control flow.                *)
(*                                                                         *)
(* A list of struct _node is a sequence of nodes, head first; the empty   *)
(* list is the empty sequence.  A file holds its lines, whether it was     *)
(* written to the end, its permission bits and its owner.                  *)
(***************************************************************************)
EXTENDS Integers, Sequences, FiniteSets, TLC

\* ------------------------------------------------------------ bounds
\* longest master file and longest live file, in lines
MaxMaster == 2
MaxLive == 2

\* ------------------------------------------------------------ constants
INT_MAX == 2147483647

WRITE_EXTENSION == ".upwd-write"
UNLINK_EXTENSION == ".upwd-unlink"

\* the flag bits, as sets of bit names; FL_KEEPALL is 0x000f
FL_KEEPHOME == {"b0"}
FL_KEEPSHELL == {"b1"}
FL_KEEPGECOS == {"b2"}
FL_KEEPALL == {"b0", "b1", "b2", "b3"}
FL_NOAUTOREMOVE == {"b4"}
FL_NOAUTOADD == {"b5"}

specialusers ==
    << [id |-> 0,  flags |-> FL_KEEPALL \cup FL_NOAUTOREMOVE],
       [id |-> 11, flags |-> FL_KEEPHOME \cup FL_NOAUTOADD \cup FL_NOAUTOREMOVE],
       [id |-> 33, flags |-> FL_KEEPHOME],
       [id |-> 70, flags |-> FL_NOAUTOREMOVE],
       [id |-> 71, flags |-> FL_KEEPALL \cup FL_KEEPHOME \cup FL_NOAUTOADD \cup FL_NOAUTOREMOVE],
       [id |-> 72, flags |-> FL_KEEPALL \cup FL_KEEPHOME \cup FL_NOAUTOADD \cup FL_NOAUTOREMOVE],
       [id |-> 73, flags |-> FL_KEEPALL \cup FL_KEEPHOME \cup FL_NOAUTOADD \cup FL_NOAUTOREMOVE],
       [id |-> 74, flags |-> FL_KEEPALL \cup FL_KEEPHOME \cup FL_NOAUTOADD \cup FL_NOAUTOREMOVE],
       [id |-> 75, flags |-> FL_KEEPALL \cup FL_KEEPHOME \cup FL_NOAUTOADD \cup FL_NOAUTOREMOVE],
       [id |-> 76, flags |-> FL_KEEPALL \cup FL_KEEPHOME \cup FL_NOAUTOADD \cup FL_NOAUTOREMOVE],
       [id |-> 0,  flags |-> {}] >>

\* ------------------------------------------------------------ policy
RECURSIVE scan_from(_, _, _)
scan_from(walk, id, flag) ==
    IF specialusers[walk].id = 0 /\ specialusers[walk].flags = {}
    THEN FALSE
    ELSE IF specialusers[walk].id = id
         THEN (specialusers[walk].flags \cap flag) # {}
         ELSE scan_from(walk + 1, id, flag)

scan_users(id, flag) == scan_from(1, id, flag)

\* keephome, testing the flag of keepshell
keephome_shell(id) == scan_users(id, FL_KEEPSHELL)
keephome(id) == scan_users(id, FL_KEEPHOME)
keepshell(id) == scan_users(id, FL_KEEPSHELL)
keepgecos(id) == scan_users(id, FL_KEEPGECOS)
\* noautoremove, finding no ID flagged
noautoremove_never(id) == FALSE
noautoremove(id) == scan_users(id, FL_NOAUTOREMOVE)
noautoadd(id) == scan_users(id, FL_NOAUTOREMOVE)

\* ------------------------------------------------------------ lists
\* a null node pointer, as an index into a list
NULL == 0

RemoveAt(list, i) == SubSeq(list, 1, i - 1) \o SubSeq(list, i + 1, Len(list))

\* copy_node, leaving the password field of the copy empty
copy_node_nopasswd(node) ==
    [t |-> node.t, name |-> node.name, id |-> node.id,
     d |-> IF node.t = "passwd" THEN [node.d EXCEPT !.pw_passwd = ""]
           ELSE IF node.t = "group" THEN [node.d EXCEPT !.gr_passwd = ""]
           ELSE [node.d EXCEPT !.sp_pwdp = ""]]

\* copy_passwd, copy_shadow and copy_group write every string of the entry
\* into the new node's buffer; for the short strings without a percent sign
\* of main's runs the copy has the strings' values (the copy of strings of
\* any length is copy_passwd and copy_group of SpecCopy)
copy_node(node) ==
    [t |-> node.t, name |-> node.name, id |-> node.id, d |-> node.d]

\* the node after which add_node links the new one: the first whose
\* successor is missing or has a greater id
RECURSIVE add_walk(_, _, _)
add_walk(head, node, walk) ==
    IF walk < Len(head) /\ head[walk + 1].id <= node.id
    THEN add_walk(head, node, walk + 1)
    ELSE walk

\* node->next is NULL when the node becomes the head: the old list is dropped
add_node(head, node) ==
    IF head = << >> THEN << node >>
    ELSE IF head[1].id > node.id THEN << node >>
    ELSE LET walk == add_walk(head, node, 1)
         IN SubSeq(head, 1, walk) \o << node >> \o SubSeq(head, walk + 1, Len(head))

RECURSIVE find_from(_, _, _)
find_from(head, name, i) ==
    IF i > Len(head) THEN NULL
    ELSE IF head[i].name = name THEN i
    ELSE find_from(head, name, i + 1)

find_by_name(head, name) == find_from(head, name, 1)
find_by_named_entry(head, entry) == find_from(head, entry.name, 1)

\* ------------------------------------------------------------ reconciler
\* Each pass returns the list it leaves and the number of times it
\* incremented flag_dirty.

RECURSIVE new_loop(_, _, _, _)
new_loop(passwd, master, m, dirty) ==
    IF m > Len(master) THEN [list |-> passwd, dirty |-> dirty]
    ELSE IF find_by_named_entry(passwd, master[m]) = NULL
         THEN new_loop(add_node(passwd, copy_node(master[m])), master, m + 1, dirty + 1)
         ELSE new_loop(passwd, master, m + 1, dirty)

process_new_entries(passwd, master) == new_loop(passwd, master, 1, 0)

\* The loop variable is a pointer to a link: link i is the head pointer
\* (i = 1) or the next field of node i - 1, and holds node i, or NULL when
\* i > Len(list).  After an entry is unlinked the link holds its successor,
\* and the loop's increment steps over that successor; when the link holds
\* NULL the increment takes the address of a field of a null node and the
\* loop condition reads through it (ub).
RECURSIVE old_loop(_, _, _, _)
old_loop(list, master, i, dirty) ==
    IF i > Len(list) THEN [list |-> list, dirty |-> dirty, ub |-> FALSE]
    ELSE IF list[i].id < 0 \/ list[i].id > 99
         THEN old_loop(list, master, i + 1, dirty)
    ELSE IF noautoremove(list[i].id)
         THEN old_loop(list, master, i + 1, dirty)
    ELSE IF find_by_named_entry(master, list[i]) = NULL
         THEN LET rest == RemoveAt(list, i)
              IN IF i > Len(rest)
                 THEN [list |-> rest, dirty |-> dirty + 1, ub |-> TRUE]
                 ELSE old_loop(rest, master, i + 1, dirty + 1)
    ELSE old_loop(list, master, i + 1, dirty)

process_old_entries(passwd, master) == old_loop(passwd, master, 1, 0)

\* one iteration of process_changed_accounts on an entry with a mastercopy
changed_account(passwd, mc) ==
    LET c1 == passwd.id # mc.id
        n1 == IF c1 THEN [passwd EXCEPT !.id = mc.id, !.d.pw_uid = mc.d.pw_uid]
                    ELSE passwd
        c2 == n1.d.pw_gid # mc.d.pw_gid
        n2 == IF c2 THEN [n1 EXCEPT !.d.pw_gid = mc.d.pw_gid] ELSE n1
        c3 == ~keepgecos(n2.id) /\ n2.d.pw_gecos # mc.d.pw_gecos
        n3 == IF c3 THEN [n2 EXCEPT !.d.pw_gecos = mc.d.pw_gecos] ELSE n2
        c4 == ~keephome(n3.id) /\ n3.d.pw_dir # mc.d.pw_dir
        n4 == IF c4 THEN [n3 EXCEPT !.d.pw_dir = mc.d.pw_dir] ELSE n3
        c5 == ~keepshell(n4.id) /\ n4.d.pw_shell # mc.d.pw_shell
        n5 == IF c5 THEN [n4 EXCEPT !.d.pw_shell = mc.d.pw_shell] ELSE n4
        Inc(c) == IF c THEN 1 ELSE 0
    IN [node |-> n5, dirty |-> Inc(c1) + Inc(c2) + Inc(c3) + Inc(c4) + Inc(c5)]

RECURSIVE changed_accounts_loop(_, _, _, _)
changed_accounts_loop(passwd, master, i, dirty) ==
    IF i > Len(passwd) THEN [list |-> passwd, dirty |-> dirty]
    ELSE IF passwd[i].id < 0 \/ passwd[i].id > 99
         THEN changed_accounts_loop(passwd, master, i + 1, dirty)
    ELSE LET mc == find_by_named_entry(master, passwd[i])
         IN IF mc = NULL
            THEN changed_accounts_loop(passwd, master, i + 1, dirty)
            ELSE LET r == changed_account(passwd[i], master[mc])
                 IN changed_accounts_loop([passwd EXCEPT ![i] = r.node], master,
                                          i + 1, dirty + r.dirty)

process_changed_accounts(passwd, master) == changed_accounts_loop(passwd, master, 1, 0)

\* one iteration of process_changed_groups on an entry with a mastercopy
changed_group(group, mc) ==
    IF group.id # mc.id
    THEN [node |-> [group EXCEPT !.id = mc.id, !.d.gr_gid = mc.d.gr_gid], dirty |-> 1]
    ELSE [node |-> group, dirty |-> 0]

RECURSIVE changed_groups_loop(_, _, _, _)
changed_groups_loop(group, master, i, dirty) ==
    IF i > Len(group) THEN [list |-> group, dirty |-> dirty]
    ELSE IF group[i].id < 0 \/ group[i].id > 99
         THEN changed_groups_loop(group, master, i + 1, dirty)
    ELSE LET mc == find_by_named_entry(master, group[i])
         IN IF mc = NULL
            THEN changed_groups_loop(group, master, i + 1, dirty)
            ELSE LET r == changed_group(group[i], master[mc])
                 IN changed_groups_loop([group EXCEPT ![i] = r.node], master,
                                        i + 1, dirty + r.dirty)

process_changed_groups(group, master) == changed_groups_loop(group, master, 1, 0)

\* ------------------------------------------------------------ files
master_passwd == "/usr/share/base-passwd/passwd.master"
master_group == "/usr/share/base-passwd/group.master"
sys_passwd == "/etc/passwd"
sys_shadow == "/etc/shadow"
sys_group == "/etc/group"

\* a path is a file name and the extension snprintf appends to it
Path(base, ext) == [base |-> base, ext |-> ext]
NoPath == Path("", "")
Paths == { Path(b, e) : b \in {master_passwd, master_group, sys_passwd, sys_shadow, sys_group},
                        e \in {"", WRITE_EXTENSION, UNLINK_EXTENSION} }

NoFile == [exists |-> FALSE]
File(content, complete, mode, owner) ==
    [exists |-> TRUE, content |-> content, complete |-> complete,
     mode |-> mode, owner |-> owner]

\* rename(2) and unlink(2) when they succeed
rename_file(f, src, dst) == [f EXCEPT ![dst] = f[src], ![src] = NoFile]
unlink_file(f, file) == [f EXCEPT ![file] = NoFile]

\* fopen(file, "wt") followed by n entries written: a new file gets the
\* permission bits the umask leaves and the owner of the process, an
\* existing one keeps its own
NewMode(mask) == IF mask = "077" THEN "0600" ELSE "0644"
written(f, file, mask, lines, complete) ==
    [f EXCEPT ![file] =
        IF f[file].exists
        THEN File(lines, complete, f[file].mode, f[file].owner)
        ELSE File(lines, complete, NewMode(mask), "root:root")]

\* the entries putpwent, putspent and putgrent write for a list
Entries(list) == [i \in 1..Len(list) |-> list[i].d]

\* copy_filemodes, with the chmod and without the lchown
copy_filemodes_modeonly(f, src, dst) ==
    [f EXCEPT ![dst] = [f[dst] EXCEPT !.mode = f[src].mode]]

\* copy_filemodes when it succeeds
copy_filemodes(f, src, dst) ==
    [f EXCEPT ![dst] = [f[dst] EXCEPT !.mode = f[src].mode, !.owner = f[src].owner]]

\* ------------------------------------------------------------ loading
IsWildcard(name) == name \in {"+"}

passwd_node(pw) ==
    [t |-> "passwd", name |-> pw.pw_name,
     id |-> IF IsWildcard(pw.pw_name) THEN INT_MAX ELSE pw.pw_uid, d |-> pw]
group_node(gr) ==
    [t |-> "group", name |-> gr.gr_name,
     id |-> IF IsWildcard(gr.gr_name) THEN INT_MAX ELSE gr.gr_gid, d |-> gr]
shadow_node(sp) ==
    [t |-> "shadow", name |-> sp.sp_namp, id |-> 0, d |-> sp]

\* the list after the first n of the nodes made from a file's lines were
\* linked in with add_node
RECURSIVE read_list(_, _, _)
read_list(list, nodes, n) ==
    IF n = 0 THEN list
    ELSE add_node(read_list(list, nodes, n - 1), nodes[n])

read_passwd(list, lines) ==
    read_list(list, [i \in 1..Len(lines) |-> passwd_node(lines[i])], Len(lines))
read_group(list, lines) ==
    read_list(list, [i \in 1..Len(lines) |-> group_node(lines[i])], Len(lines))
read_shadow(list, lines) ==
    read_list(list, [i \in 1..Len(lines) |-> shadow_node(lines[i])], Len(lines))

\* ------------------------------------------------------------ state
VARIABLES
    opt_dryrun, opt_nolock, opt_sanity,      \* the option flags
    master_accounts, master_groups,          \* the master lists
    system_accounts, system_shadow, system_groups,   \* the live lists
    flag_dirty,                              \* the count of applied changes
    fs,                                      \* the file system: path -> file
    umask,                                   \* the process's file mode mask
    lock_held,                               \* lckpwdf's lock is held by this process
    lock_trace,                              \* the calls of lckpwdf and ulckpwdf, with results
    source, target,                          \* put_file_in_place's arguments
    stderr,                                  \* the error messages printed so far
    pc,                                      \* main's position
    exit_code,                               \* main's return value, once pc = "exit"
    fs0,                                     \* the file system when main started
    may_fail,                                \* system calls can fail for reasons of their own
    pass                                     \* 1, or 2 when reconciliation is being run again

opts == << opt_dryrun, opt_nolock, opt_sanity >>
masters == << master_accounts, master_groups >>
lists == << system_accounts, system_shadow, system_groups >>
lock == << lock_held, lock_trace >>
pfp == << source, target >>
env == << fs0, may_fail, pass >>
vars == << opts, masters, lists, flag_dirty, fs, umask, lock, pfp, stderr, pc, exit_code, env >>

\* the results a system call can have: TRUE is success
Results == IF may_fail THEN BOOLEAN ELSE {TRUE}

Msg(op, file) == [op |-> op, file |-> file]

\* ------------------------------------------------------------ inputs
pw(name, uid, gid, gecos, dir, shell) ==
    [pw_name |-> name, pw_passwd |-> "x", pw_uid |-> uid, pw_gid |-> gid,
     pw_gecos |-> gecos, pw_dir |-> dir, pw_shell |-> shell]
gr(name, gid) ==
    [gr_name |-> name, gr_passwd |-> "x", gr_gid |-> gid, gr_mem |-> << >>]
sp(name) ==
    [sp_namp |-> name, sp_pwdp |-> "!"]

\* lines of the master account file: one name per line
MasterPasswdLines ==
    { pw("root", 0, 0, "root", "/root", "/bin/bash"),
      pw("ftp", 11, 11, "ftp", "/home/ftp", "/bin/sh"),
      pw("svc", 50, 50, "svc", "/srv", "/bin/sh"),
      pw("nobody", 65534, 65534, "nobody", "/nonexistent", "/bin/sh") }

\* lines of the live account file
SysPasswdLines ==
    { pw("root", 0, 0, "Charlie Root", "/home/root", "/bin/zsh"),
      pw("ftp", 11, 11, "old ftp", "/srv/ftp", "/bin/false"),
      pw("svc", 50, 51, "old svc", "/old", "/bin/false"),
      pw("svc", 0, 50, "old svc", "/srv", "/bin/sh"),
      pw("old", 60, 60, "old", "/old", "/bin/sh"),
      pw("tmp", 61, 61, "tmp", "/tmp", "/bin/sh"),
      pw("usr", 1000, 1000, "usr", "/home/usr", "/bin/sh"),
      pw("+", 0, 0, "", "", "") }

MasterGroupLines ==
    { gr("root", 0), gr("ftp", 11), gr("svc", 50), gr("nogroup", 65534) }

SysGroupLines ==
    { gr("root", 0), gr("svc", 51), gr("old", 60), gr("tmp", 61),
      gr("usr", 1000), gr("+", 0) }

\* the sequences of at most n elements of S
SeqsUpTo(S, n) == UNION { [1..k -> S] : k \in 0..n }

\* a master file is a trusted template: no name appears twice in it
UniqueNames(names) ==
    \A i, j \in 1..Len(names) : names[i] = names[j] => i = j
PwNames(lines) == [i \in 1..Len(lines) |-> lines[i].pw_name]
GrNames(lines) == [i \in 1..Len(lines) |-> lines[i].gr_name]

MasterPasswdFiles ==
    { f \in SeqsUpTo(MasterPasswdLines, MaxMaster) : UniqueNames(PwNames(f)) }
MasterGroupFiles ==
    { f \in SeqsUpTo(MasterGroupLines, MaxMaster) : UniqueNames(GrNames(f)) }
SysPasswdFiles == SeqsUpTo(SysPasswdLines, MaxLive)
SysGroupFiles == SeqsUpTo(SysGroupLines, MaxLive)

\* the five files of one run: the contents of each, NoFile for a missing one
Inputs(mp, mg, p, s, g) ==
    [f \in Paths |->
        IF f = Path(master_passwd, "") THEN mp
        ELSE IF f = Path(master_group, "") THEN mg
        ELSE IF f = Path(sys_passwd, "") THEN p
        ELSE IF f = Path(sys_shadow, "") THEN s
        ELSE IF f = Path(sys_group, "") THEN g
        ELSE NoFile]

Plain(lines) == File(lines, TRUE, "0644", "root:root")
Secret(lines) == File(lines, TRUE, "0640", "root:shadow")

\* runs that vary the account files, runs that vary the group files, and
\* runs that vary the options, the shadow file and the files' modes
AccountRuns ==
    { Inputs(Plain(mp), Plain(<< gr("root", 0) >>), Plain(p),
             Secret(<< sp("root") >>), Plain(<< gr("root", 0) >>)) :
        mp \in MasterPasswdFiles, p \in SysPasswdFiles }
GroupRuns ==
    { Inputs(Plain(<< pw("root", 0, 0, "root", "/root", "/bin/bash") >>), Plain(mg),
             Plain(<< pw("root", 0, 0, "root", "/root", "/bin/bash") >>),
             Secret(<< sp("root") >>), Plain(g)) :
        mg \in MasterGroupFiles, g \in SysGroupFiles }
CommitRuns ==
    { Inputs(Plain(<< pw("root", 0, 0, "root", "/root", "/bin/bash"),
                      pw("svc", 50, 50, "svc", "/srv", "/bin/sh") >>),
             Plain(<< gr("root", 0) >>),
             p, s, g) :
        p \in { Plain(<< pw("root", 0, 0, "root", "/root", "/bin/bash"),
                         pw("svc", 50, 50, "svc", "/srv", "/bin/sh") >>),
                Plain(<< pw("root", 0, 0, "root", "/root", "/bin/bash"),
                         pw("usr", 1000, 1000, "usr", "/home/usr", "/bin/sh") >>) },
        s \in { NoFile, Secret(<< >>), Secret(<< sp("root"), sp("usr") >>) },
        g \in { Plain(<< gr("root", 0) >>),
                File(<< gr("root", 0), gr("old", 60), gr("usr", 1000) >>, TRUE,
                     "0664", "root:staff") } }

Init ==
    /\ \/ /\ fs \in AccountRuns \cup GroupRuns
          /\ opt_nolock = FALSE
          /\ opt_sanity = TRUE
          /\ opt_dryrun = FALSE
          /\ may_fail = FALSE
       \/ /\ fs \in CommitRuns
          /\ opt_nolock \in BOOLEAN
          /\ opt_sanity \in BOOLEAN
          /\ opt_dryrun \in BOOLEAN
          /\ may_fail = TRUE
    /\ fs0 = fs
    /\ pass = 1
    /\ master_accounts = << >>
    /\ master_groups = << >>
    /\ system_accounts = << >>
    /\ system_shadow = << >>
    /\ system_groups = << >>
    /\ flag_dirty = 0
    /\ umask = "022"
    /\ lock_held = FALSE
    /\ lock_trace = << >>
    /\ source = NoPath
    /\ target = NoPath
    /\ stderr = << >>
    /\ pc = "read_master_passwd"
    /\ exit_code = 0

\* ------------------------------------------------------------ main: loading
\* Return, with the code of a failed commit for a failed unlock
Return_nofive(code) == pc' = "exit" /\ exit_code' = (IF code = 5 THEN 4 ELSE code)
Return(code) == pc' = "exit" /\ exit_code' = code

\* how a read of a file can end: "ok", "eopen" (fopen failed), "eread"
\* (the read of a line failed with an error other than ENOENT)
ReadResults(file) ==
    IF ~fs[file].exists THEN {"eopen"}
    ELSE IF may_fail THEN {"ok", "eopen", "eread"}
    ELSE {"ok"}

\* ReadInto, with main going on to the next read after a failure
ReadInto_goon(file, read, list, next) ==
    \E res \in ReadResults(file) :
        /\ list' = IF res = "ok" THEN read[Len(fs[file].content)] ELSE << >>
        /\ stderr' = IF res = "ok" THEN stderr ELSE Append(stderr, Msg("read", file))
        /\ pc' = next /\ exit_code' = exit_code

\* the lines of `file` up to the k-th
FirstLines(file, k) == SubSeq(fs[file].content, 1, k)

\* read_passwd, read_group or read_shadow on `file` into an empty list, where
\* read[k] is the list it builds from the first k lines; main returns 2 when
\* it fails.  A read error comes after the first k lines were linked in.
ReadInto(file, read, list, next) ==
    \E res \in ReadResults(file) :
        \/ /\ res = "ok"
           /\ list' = read[Len(fs[file].content)]
           /\ stderr' = stderr
           /\ pc' = next /\ exit_code' = exit_code
        \/ /\ res = "eopen"
           /\ list' = << >>
           /\ stderr' = Append(stderr, Msg("open", file))
           /\ Return(2)
        \/ /\ res = "eread"
           /\ \E k \in 0..Len(fs[file].content) :
                 list' = read[k]
           /\ stderr' = Append(stderr, Msg("read", file))
           /\ Return(2)

ReadMasterPasswd ==
    /\ pc = "read_master_passwd"
    /\ ReadInto(Path(master_passwd, ""),
                [k \in 0..Len(fs[Path(master_passwd, "")].content) |-> read_passwd(<< >>, FirstLines(Path(master_passwd, ""), k))],
                master_accounts, "read_master_group")
    /\ UNCHANGED << opts, master_groups, lists, flag_dirty, fs, umask, lock, pfp, env >>

ReadMasterGroup ==
    /\ pc = "read_master_group"
    /\ ReadInto(Path(master_group, ""),
                [k \in 0..Len(fs[Path(master_group, "")].content) |-> read_group(<< >>, FirstLines(Path(master_group, ""), k))],
                master_groups, "read_sys_passwd")
    /\ UNCHANGED << opts, master_accounts, lists, flag_dirty, fs, umask, lock, pfp, env >>

ReadSysPasswd ==
    /\ pc = "read_sys_passwd"
    /\ ReadInto(Path(sys_passwd, ""),
                [k \in 0..Len(fs[Path(sys_passwd, "")].content) |-> read_passwd(<< >>, FirstLines(Path(sys_passwd, ""), k))],
                system_accounts, "read_sys_shadow")
    /\ UNCHANGED << opts, masters, system_shadow, system_groups, flag_dirty, fs, umask,
                    lock, pfp, env >>

\* ReadSysShadow, with a missing file being an error like any other
ReadSysShadow_strict ==
    /\ pc = "read_sys_shadow"
    /\ ReadInto(Path(sys_shadow, ""),
                [k \in 0..Len(fs[Path(sys_shadow, "")].content) |->
                    read_shadow(<< >>, FirstLines(Path(sys_shadow, ""), k))],
                system_shadow, "read_sys_group")
    /\ UNCHANGED << opts, masters, system_accounts, system_groups, flag_dirty, fs, umask,
                    lock, pfp, env >>

\* read_shadow: a missing file (ENOENT) is silent and main goes on without
\* a shadow list; any other failure makes main return 2
ReadSysShadow ==
    /\ pc = "read_sys_shadow"
    /\ LET file == Path(sys_shadow, "")
       IN \/ /\ ~fs[file].exists
             /\ system_shadow' = << >>
             /\ stderr' = stderr
             /\ pc' = "read_sys_group" /\ exit_code' = exit_code
          \/ /\ fs[file].exists
             /\ ReadInto(file,
                         [k \in 0..Len(fs[file].content) |-> read_shadow(<< >>, FirstLines(file, k))],
                         system_shadow, "read_sys_group")
    /\ UNCHANGED << opts, masters, system_accounts, system_groups, flag_dirty, fs, umask,
                    lock, pfp, env >>

ReadSysGroup ==
    /\ pc = "read_sys_group"
    /\ ReadInto(Path(sys_group, ""),
                [k \in 0..Len(fs[Path(sys_group, "")].content) |-> read_group(<< >>, FirstLines(Path(sys_group, ""), k))],
                system_groups, "new_accounts")
    /\ UNCHANGED << opts, masters, system_accounts, system_shadow, flag_dirty, fs, umask,
                    lock, pfp, env >>

\* ------------------------------------------------------------ main: reconciliation
\* where main is after process_old_entries read through a null link: the
\* process is killed, or the read yields NULL and the loop ends
AfterOld(r, next) == IF r.ub THEN {"crashed", next} ELSE {next}

\* ProcessNewAccounts, with a credentials entry made for the accounts added
ProcessNewAccounts_shadow ==
    /\ pc = "new_accounts"
    /\ LET r == process_new_entries(system_accounts, master_accounts)
       IN /\ system_accounts' = r.list
          /\ flag_dirty' = flag_dirty + r.dirty
          /\ system_shadow' = IF r.dirty > 0
                              THEN Append(system_shadow, shadow_node(sp("new")))
                              ELSE system_shadow
    /\ pc' = "old_accounts"
    /\ UNCHANGED << opts, masters, system_groups, fs, umask, lock, pfp,
                    stderr, exit_code, env >>

ProcessNewAccounts ==
    /\ pc = "new_accounts"
    /\ LET r == process_new_entries(system_accounts, master_accounts)
       IN /\ system_accounts' = r.list
          /\ flag_dirty' = flag_dirty + r.dirty
    /\ pc' = "old_accounts"
    /\ UNCHANGED << opts, masters, system_shadow, system_groups, fs, umask, lock, pfp,
                    stderr, exit_code, env >>

ProcessOldAccounts ==
    /\ pc = "old_accounts"
    /\ LET r == process_old_entries(system_accounts, master_accounts)
       IN /\ system_accounts' = r.list
          /\ flag_dirty' = flag_dirty + r.dirty
          /\ pc' \in AfterOld(r, "changed_accounts")
    /\ UNCHANGED << opts, masters, system_shadow, system_groups, fs, umask, lock, pfp,
                    stderr, exit_code, env >>

ProcessChangedAccounts ==
    /\ pc = "changed_accounts"
    /\ LET r == process_changed_accounts(system_accounts, master_accounts)
       IN /\ system_accounts' = r.list
          /\ flag_dirty' = flag_dirty + r.dirty
    /\ pc' = "new_groups"
    /\ UNCHANGED << opts, masters, system_shadow, system_groups, fs, umask, lock, pfp,
                    stderr, exit_code, env >>

ProcessNewGroups ==
    /\ pc = "new_groups"
    /\ LET r == process_new_entries(system_groups, master_groups)
       IN /\ system_groups' = r.list
          /\ flag_dirty' = flag_dirty + r.dirty
    /\ pc' = "old_groups"
    /\ UNCHANGED << opts, masters, system_accounts, system_shadow, fs, umask, lock, pfp,
                    stderr, exit_code, env >>

ProcessOldGroups ==
    /\ pc = "old_groups"
    /\ LET r == process_old_entries(system_groups, master_groups)
       IN /\ system_groups' = r.list
          /\ flag_dirty' = flag_dirty + r.dirty
          /\ pc' \in AfterOld(r, "changed_groups")
    /\ UNCHANGED << opts, masters, system_accounts, system_shadow, fs, umask, lock, pfp,
                    stderr, exit_code, env >>

ProcessChangedGroups ==
    /\ pc = "changed_groups"
    /\ LET r == process_changed_groups(system_groups, master_groups)
       IN /\ system_groups' = r.list
          /\ flag_dirty' = flag_dirty + r.dirty
    /\ pc' = "reconciled"
    /\ UNCHANGED << opts, masters, system_accounts, system_shadow, fs, umask, lock, pfp,
                    stderr, exit_code, env >>

\* ------------------------------------------------------------ main: locking
\* lckpwdf and ulckpwdf, the C library's lock on the account database:
\* ulckpwdf fails when the lock is not held; when it is held the lock is
\* given up even if closing the lock file reports an error
LockCall(call, ok) == [call |-> call, ok |-> ok]

\* SanityReturn, going on to commit_files
SanityReturn_commit ==
    /\ pc = "reconciled"
    /\ opt_sanity
    /\ pc' = "commit"
    /\ UNCHANGED << opts, masters, lists, flag_dirty, fs, umask, lock, pfp, stderr,
                    exit_code, env >>

SanityReturn ==
    /\ pc = "reconciled"
    /\ opt_sanity
    /\ Return(0)
    /\ UNCHANGED << opts, masters, lists, flag_dirty, fs, umask, lock, pfp, stderr, env >>

\* LockFiles, going on to commit_files without the call of lckpwdf
LockFiles_nolock ==
    /\ pc = "reconciled"
    /\ ~opt_sanity
    /\ pc' = "commit"
    /\ UNCHANGED << opts, masters, lists, flag_dirty, fs, umask, lock, pfp, stderr,
                    exit_code, env >>

LockFiles ==
    /\ pc = "reconciled"
    /\ ~opt_sanity
    /\ IF ~opt_nolock /\ ~opt_dryrun
       THEN \E ok \in Results :
               /\ lock_trace' = Append(lock_trace, LockCall("lckpwdf", ok))
               /\ IF ok
                  THEN /\ lock_held' = TRUE
                       /\ stderr' = stderr
                       /\ pc' = "commit" /\ exit_code' = exit_code
                  ELSE /\ lock_held' = lock_held
                       /\ stderr' = Append(stderr, Msg("lock", NoPath))
                       /\ Return(3)
       ELSE /\ pc' = "commit"
            /\ UNCHANGED << lock, stderr, exit_code >>
    /\ UNCHANGED << opts, masters, lists, flag_dirty, fs, umask, pfp, env >>

\* unlock_files(): TRUE results are the successful ones
UnlockResults == IF lock_held THEN Results ELSE {FALSE}

\* CommitFailed, returning 4 without the call of unlock_files
CommitFailed_nounlock ==
    /\ pc = "commit_failed"
    /\ Return(4)
    /\ UNCHANGED << opts, masters, lists, flag_dirty, fs, umask, lock, pfp, stderr, env >>

\* main after commit_files returned 0: unlock_files(), whatever the options
CommitFailed ==
    /\ pc = "commit_failed"
    /\ \E ok \in UnlockResults :
          /\ lock_trace' = Append(lock_trace, LockCall("ulckpwdf", ok))
          /\ stderr' = IF ok THEN stderr ELSE Append(stderr, Msg("unlock", NoPath))
    /\ lock_held' = FALSE
    /\ Return(4)
    /\ UNCHANGED << opts, masters, lists, flag_dirty, fs, umask, pfp, env >>

\* UnlockFiles, returning 0 in a dry run as in any other
UnlockFiles_zero ==
    /\ pc = "unlock"
    /\ IF ~opt_nolock /\ ~opt_dryrun
       THEN \E ok \in UnlockResults :
               /\ lock_trace' = Append(lock_trace, LockCall("ulckpwdf", ok))
               /\ lock_held' = FALSE
               /\ IF ok
                  THEN /\ stderr' = stderr
                       /\ Return(0)
                  ELSE /\ stderr' = Append(stderr, Msg("unlock", NoPath))
                       /\ Return(5)
       ELSE /\ Return(0)
            /\ UNCHANGED << lock, stderr >>
    /\ UNCHANGED << opts, masters, lists, flag_dirty, fs, umask, pfp, env >>

\* main after commit_files returned 1
UnlockFiles ==
    /\ pc = "unlock"
    /\ IF ~opt_nolock /\ ~opt_dryrun
       THEN \E ok \in UnlockResults :
               /\ lock_trace' = Append(lock_trace, LockCall("ulckpwdf", ok))
               /\ lock_held' = FALSE
               /\ IF ok
                  THEN /\ stderr' = stderr
                       /\ Return(0)
                  ELSE /\ stderr' = Append(stderr, Msg("unlock", NoPath))
                       /\ Return(5)
       ELSE /\ Return(IF opt_dryrun THEN flag_dirty ELSE 0)
            /\ UNCHANGED << lock, stderr >>
    /\ UNCHANGED << opts, masters, lists, flag_dirty, fs, umask, pfp, env >>

\* ------------------------------------------------------------ commit_files
\* commit_files, without the test of opt_dryrun
CommitFiles_nodryrun ==
    /\ pc = "commit"
    /\ pc' = IF flag_dirty = 0 THEN "unlock" ELSE "write_passwd"
    /\ UNCHANGED << opts, masters, lists, flag_dirty, fs, umask, lock, pfp, stderr,
                    exit_code, env >>

\* commit_files, without the test of flag_dirty
CommitFiles_nodirty ==
    /\ pc = "commit"
    /\ pc' = IF opt_dryrun THEN "unlock" ELSE "write_passwd"
    /\ UNCHANGED << opts, masters, lists, flag_dirty, fs, umask, lock, pfp, stderr,
                    exit_code, env >>

CommitFiles ==
    /\ pc = "commit"
    /\ pc' = IF flag_dirty = 0 THEN "unlock"
             ELSE IF opt_dryrun THEN "unlock"
             ELSE "write_passwd"
    /\ UNCHANGED << opts, masters, lists, flag_dirty, fs, umask, lock, pfp, stderr,
                    exit_code, env >>

\* write_passwd, write_shadow or write_group of `list` to the file wf,
\* then the call of put_file_in_place(wf, file) when it returned 1.
\* A write error comes after k entries were written; a close error leaves
\* an unknown part of the entries in the file.
Stage(list, file) ==
    LET wf == Path(file, WRITE_EXTENSION)
    IN \E res \in (IF may_fail THEN {"ok", "eopen", "ewrite", "eclose"} ELSE {"ok"}) :
        \/ /\ res = "ok"
           /\ fs' = written(fs, wf, umask, Entries(list), TRUE)
           /\ stderr' = stderr
           /\ source' = wf /\ target' = Path(file, "")
           /\ pc' = "pfp_rename_aside"
        \/ /\ res = "eopen"
           /\ fs' = fs
           /\ stderr' = Append(stderr, Msg("open", wf))
           /\ UNCHANGED pfp
           /\ pc' = "commit_failed"
        \/ /\ res = "ewrite"
           /\ \E k \in 0..(Len(list) - 1) :
                 fs' = written(fs, wf, umask, SubSeq(Entries(list), 1, k), FALSE)
           /\ stderr' = Append(stderr, Msg("write", wf))
           /\ UNCHANGED pfp
           /\ pc' = "commit_failed"
        \/ /\ res = "eclose"
           /\ \E k \in 0..Len(list) :
                 fs' = written(fs, wf, umask, SubSeq(Entries(list), 1, k), FALSE)
           /\ stderr' = Append(stderr, Msg("close", wf))
           /\ UNCHANGED pfp
           /\ pc' = "commit_failed"

WritePasswd ==
    /\ pc = "write_passwd"
    /\ Stage(system_accounts, sys_passwd)
    /\ UNCHANGED << opts, masters, lists, flag_dirty, umask, lock, exit_code, env >>

WriteShadow ==
    /\ pc = "write_shadow"
    /\ Stage(system_shadow, sys_shadow)
    /\ UNCHANGED << opts, masters, lists, flag_dirty, umask, lock, exit_code, env >>

WriteGroup ==
    /\ pc = "write_group"
    /\ Stage(system_groups, sys_group)
    /\ UNCHANGED << opts, masters, lists, flag_dirty, umask, lock, exit_code, env >>

\* ------------------------------------------------------------ put_file_in_place
\* One action per system call.  A call can fail for a reason of its own
\* (ok = FALSE); rename and lstat also fail when the file is missing.
uf == Path(target.base, UNLINK_EXTENSION)

\* AfterPublish, without the credentials
AfterPublish_noshadow(file) ==
    IF file = Path(sys_passwd, "") THEN "write_group" ELSE "unlock"

\* where commit_files goes on after put_file_in_place(wf, file) returned 1
AfterPublish(file) ==
    IF file = Path(sys_passwd, "")
    THEN (IF system_shadow # << >> THEN "write_shadow" ELSE "write_group")
    ELSE IF file = Path(sys_shadow, "") THEN "write_group"
    ELSE "unlock"

\* umask(0077); rename_file(target, uf)
PfpRenameAside ==
    /\ pc = "pfp_rename_aside"
    /\ umask' = "077"
    /\ \E ok \in Results :
          IF ok /\ fs[target].exists
          THEN /\ fs' = rename_file(fs, target, uf)
               /\ stderr' = stderr
               /\ pc' = "pfp_rename_in"
          ELSE /\ fs' = fs
               /\ stderr' = Append(stderr, Msg("rename", target))
               /\ pc' = "pfp_unlink_source"
    /\ UNCHANGED << opts, masters, lists, flag_dirty, lock, pfp, exit_code, env >>

\* PfpUnlinkSource, unlinking the destination instead of the staging file
PfpUnlinkSource_target ==
    /\ pc = "pfp_unlink_source"
    /\ fs' = unlink_file(fs, target)
    /\ stderr' = stderr
    /\ source' = NoPath /\ target' = NoPath
    /\ pc' = "commit_failed"
    /\ UNCHANGED << opts, masters, lists, flag_dirty, umask, lock, exit_code, env >>

\* the first rename failed: unlink_file(source); return 0
PfpUnlinkSource ==
    /\ pc = "pfp_unlink_source"
    /\ \E ok \in Results :
          IF ok /\ fs[source].exists
          THEN /\ fs' = unlink_file(fs, source)
               /\ stderr' = stderr
          ELSE /\ fs' = fs
               /\ stderr' = Append(stderr, Msg("unlink", source))
    /\ source' = NoPath /\ target' = NoPath
    /\ pc' = "commit_failed"
    /\ UNCHANGED << opts, masters, lists, flag_dirty, umask, lock, exit_code, env >>

\* rename_file(source, target)
PfpRenameIn ==
    /\ pc = "pfp_rename_in"
    /\ \E ok \in Results :
          IF ok /\ fs[source].exists
          THEN /\ fs' = rename_file(fs, source, target)
               /\ stderr' = stderr
               /\ pc' = "pfp_copy_filemodes"
          ELSE /\ fs' = fs
               /\ stderr' = Append(stderr, Msg("rename", source))
               /\ pc' = "pfp_restore"
    /\ UNCHANGED << opts, masters, lists, flag_dirty, umask, lock, pfp, exit_code, env >>

\* the second rename failed: rename_file(uf, target); return 0
PfpRestore ==
    /\ pc = "pfp_restore"
    /\ \E ok \in Results :
          IF ok /\ fs[uf].exists
          THEN /\ fs' = rename_file(fs, uf, target)
               /\ stderr' = stderr
          ELSE /\ fs' = fs
               /\ stderr' = Append(stderr, Msg("rename", uf))
    /\ source' = NoPath /\ target' = NoPath
    /\ pc' = "commit_failed"
    /\ UNCHANGED << opts, masters, lists, flag_dirty, umask, lock, exit_code, env >>

\* copy_filemodes(uf, target): lstat of uf, chmod of target, lchown of target
PfpCopyFilemodes ==
    /\ pc = "pfp_copy_filemodes"
    /\ \E res \in (IF may_fail THEN {"ok", "elstat", "echmod", "echown"} ELSE {"ok"}) :
          \/ /\ res = "ok" /\ fs[uf].exists
             /\ fs' = copy_filemodes(fs, uf, target)
             /\ stderr' = stderr
             /\ pc' = "pfp_unlink_uf"
          \/ /\ res = "elstat" \/ ~fs[uf].exists
             /\ fs' = fs
             /\ stderr' = Append(stderr, Msg("lstat", uf))
             /\ pc' = "pfp_drop_uf"
          \/ /\ res = "echmod" /\ fs[uf].exists
             /\ fs' = fs
             /\ stderr' = Append(stderr, Msg("chmod", uf))
             /\ pc' = "pfp_drop_uf"
          \/ /\ res = "echown" /\ fs[uf].exists
             /\ fs' = [fs EXCEPT ![target].mode = fs[uf].mode]
             /\ stderr' = Append(stderr, Msg("lchown", uf))
             /\ pc' = "pfp_drop_uf"
    /\ UNCHANGED << opts, masters, lists, flag_dirty, umask, lock, pfp, exit_code, env >>

\* copy_filemodes failed: unlink_file(uf); return 0
PfpDropUf ==
    /\ pc = "pfp_drop_uf"
    /\ \E ok \in Results :
          IF ok /\ fs[uf].exists
          THEN /\ fs' = unlink_file(fs, uf)
               /\ stderr' = stderr
          ELSE /\ fs' = fs
               /\ stderr' = Append(stderr, Msg("unlink", uf))
    /\ source' = NoPath /\ target' = NoPath
    /\ pc' = "commit_failed"
    /\ UNCHANGED << opts, masters, lists, flag_dirty, umask, lock, exit_code, env >>

\* return unlink_file(uf)
PfpUnlinkUf ==
    /\ pc = "pfp_unlink_uf"
    /\ \E ok \in Results :
          IF ok /\ fs[uf].exists
          THEN /\ fs' = unlink_file(fs, uf)
               /\ stderr' = stderr
               /\ pc' = AfterPublish(target)
          ELSE /\ fs' = fs
               /\ stderr' = Append(stderr, Msg("unlink", uf))
               /\ pc' = "commit_failed"
    /\ source' = NoPath /\ target' = NoPath
    /\ UNCHANGED << opts, masters, lists, flag_dirty, umask, lock, exit_code, env >>

\* ------------------------------------------------------------ specification
Next ==
    \/ ReadMasterPasswd \/ ReadMasterGroup \/ ReadSysPasswd \/ ReadSysShadow \/ ReadSysGroup
    \/ ProcessNewAccounts \/ ProcessOldAccounts \/ ProcessChangedAccounts
    \/ ProcessNewGroups \/ ProcessOldGroups \/ ProcessChangedGroups
    \/ SanityReturn \/ LockFiles \/ CommitFiles
    \/ WritePasswd \/ WriteShadow \/ WriteGroup
    \/ PfpRenameAside \/ PfpUnlinkSource \/ PfpRenameIn \/ PfpRestore
    \/ PfpCopyFilemodes \/ PfpDropUf \/ PfpUnlinkUf
    \/ CommitFailed \/ UnlockFiles

Spec == Init /\ [][Next]_vars

\* The six passes of main run a second time on the lists the first run
\* left, with the same master lists and flag_dirty reset.
Rerun ==
    /\ pc = "reconciled"
    /\ pass = 1
    /\ pass' = 2
    /\ flag_dirty' = 0
    /\ pc' = "new_accounts"
    /\ UNCHANGED << opts, masters, lists, fs, umask, lock, pfp, stderr, exit_code,
                    fs0, may_fail >>

NextTwice == Next \/ Rerun

SpecTwice == Init /\ [][NextTwice]_vars

\* ------------------------------------------------------------ the commit protocol: claims
LiveFiles == {sys_passwd, sys_shadow, sys_group}

\* the list commit_files writes to a live file
ListOf(file) ==
    IF file = sys_passwd THEN system_accounts
    ELSE IF file = sys_shadow THEN system_shadow
    ELSE system_groups

\* the path holds the complete original file or the complete replacement
ValidAt(file) ==
    /\ fs[Path(file, "")].exists
    /\ fs[Path(file, "")].complete
    /\ \/ fs[Path(file, "")].content = fs0[Path(file, "")].content
       \/ fs[Path(file, "")].content = Entries(ListOf(file))

InPublish ==
    pc \in {"pfp_rename_aside", "pfp_unlink_source", "pfp_rename_in", "pfp_restore",
            "pfp_copy_filemodes", "pfp_drop_uf", "pfp_unlink_uf"}

\* C1: between any two steps of put_file_in_place a valid file (the
\* original or the fully written replacement) exists at the destination.
C1_ValidAtEveryStep == InPublish => ValidAt(target.base)

\* the messages the steps of put_file_in_place print when they fail
PublishErrors == {"rename", "unlink", "lstat", "chmod", "lchown"}

\* C2: whenever put_file_in_place has returned failure, the destination
\* holds the complete original or the complete replacement.
C2_ValidAfterFailedPublish ==
    (pc = "commit_failed" /\ stderr # << >> /\ stderr[1].op \in PublishErrors)
        => ValidAt(stderr[1].file.base)

\* staging the file failed: fopen, a put*ent or fclose on the staging file
StageFailed(file) ==
    \E i \in 1..Len(stderr) :
        /\ stderr[i].op \in {"open", "write", "close"}
        /\ stderr[i].file = Path(file, WRITE_EXTENSION)

\* the first step of put_file_in_place failed: the rename of the destination
FirstStepFailed(file) ==
    \E i \in 1..Len(stderr) : stderr[i] = Msg("rename", Path(file, ""))

\* C3: once staging a store has failed, or the first step of its publish,
\* the destination is the file it was when the run started (content, mode
\* and owner), in that state and in every later one.
C3_DestinationUntouched ==
    \A file \in LiveFiles :
        (StageFailed(file) \/ FirstStepFailed(file))
            => fs[Path(file, "")] = fs0[Path(file, "")]

\* a run that published the account file and then failed on the first
\* step of publishing the group file
C3_Witness ==
    /\ pc = "exit"
    /\ FirstStepFailed(sys_group)
    /\ fs[Path(sys_passwd, "")] # fs0[Path(sys_passwd, "")]
    /\ fs[Path(sys_group, "")].exists

\* C10: when main returns, the lock is not held: every path on which
\* lckpwdf succeeded calls ulckpwdf before it returns.
C10_LockReleasedAtExit == pc = "exit" => ~lock_held

\* a run that took the lock, failed to commit and returned 4
C10_Witness ==
    /\ pc = "exit"
    /\ exit_code = 4
    /\ \E i \in 1..Len(lock_trace) : lock_trace[i] = LockCall("lckpwdf", TRUE)

\* ------------------------------------------------------------ the reconciler: claims
\* the lists as read_passwd and read_group built them from the files the
\* run started with: the stores before reconciliation
loaded_accounts == read_passwd(<< >>, fs0[Path(sys_passwd, "")].content)
loaded_groups == read_group(<< >>, fs0[Path(sys_group, "")].content)

Nodes(list) == { list[i] : i \in 1..Len(list) }
Names(list) == { list[i].name : i \in 1..Len(list) }
Reserved(id) == id >= 0 /\ id <= 99

IsNonReserved(node) == node.id >= 100
NonReserved(list) == Nodes(SelectSeq(list, IsNonReserved))

\* main is past the three passes over the accounts / over the groups
AccountsReconciled ==
    pc \in {"new_groups", "old_groups", "changed_groups", "reconciled"}
GroupsReconciled == pc = "reconciled"

\* C4: after the three passes the records with ID >= 100 of a live store
\* are the records with ID >= 100 it had when loaded, field for field.
C4_NonReservedUntouched ==
    /\ AccountsReconciled => NonReserved(system_accounts) = NonReserved(loaded_accounts)
    /\ GroupsReconciled => NonReserved(system_groups) = NonReserved(loaded_groups)

\* the entries remove_stale must not touch
IsProtected(node) == ~Reserved(node.id) \/ scan_users(node.id, FL_NOAUTOREMOVE)
Protected(list) == SelectSeq(list, IsProtected)

\* C5: process_old_entries leaves every entry with an ID outside 0..99 and
\* every entry whose ID has FL_NOAUTOREMOVE in the list, with the same
\* fields and in the same order.
C5_OldKeepsProtected ==
    [][ /\ pc = "old_accounts" => Protected(system_accounts') = Protected(system_accounts)
        /\ pc = "old_groups" => Protected(system_groups') = Protected(system_groups) ]_vars

\* process_old_entries removed an entry from the accounts and left a
\* protected one
C5_Witness ==
    /\ pc = "changed_accounts"
    /\ Len(system_accounts)
         < Len(process_new_entries(loaded_accounts, master_accounts).list)
    /\ Protected(system_accounts) # << >>

\* the entries of a loaded list that reconciliation has to remove
Stale(list, master) ==
    { n \in Nodes(list) :
        /\ Reserved(n.id)
        /\ ~scan_users(n.id, FL_NOAUTOREMOVE)
        /\ n.name \notin Names(master) }

\* C6: after reconciliation no stale entry (ID in 0..99, no FL_NOAUTOREMOVE,
\* name not in the master list) is left in the live list.
C6_StaleRemoved ==
    /\ AccountsReconciled =>
          Stale(loaded_accounts, master_accounts) \cap Nodes(system_accounts) = {}
    /\ GroupsReconciled =>
          Stale(loaded_groups, master_groups) \cap Nodes(system_groups) = {}

\* the reserved-range master entries whose name the loaded list lacks
Missing(list, master) ==
    { n \in Nodes(master) : Reserved(n.id) /\ n.name \notin Names(list) }

HasCopy(list, n) ==
    \E i \in 1..Len(list) :
        list[i].name = n.name /\ list[i].id = n.id /\ list[i].d = n.d

AccountSynced(o, n, mc, polid) ==
    /\ n.id = mc.id
    /\ n.d.pw_uid = mc.d.pw_uid
    /\ n.d.pw_gecos = IF scan_users(polid, FL_KEEPGECOS) THEN o.d.pw_gecos ELSE mc.d.pw_gecos
    /\ n.d.pw_dir = IF scan_users(polid, FL_KEEPHOME) THEN o.d.pw_dir ELSE mc.d.pw_dir
    /\ n.d.pw_shell = IF scan_users(polid, FL_KEEPSHELL) THEN o.d.pw_shell ELSE mc.d.pw_shell

GroupSynced(o, n, mc) == n.id = mc.id /\ n.d.gr_gid = mc.d.gr_gid

Matched(list, master, i) ==
    Reserved(list[i].id) /\ find_by_named_entry(master, list[i]) # NULL
MasterCopy(list, master, i) == master[find_by_named_entry(master, list[i])]

C9_SecondRunClean == pass = 2 => flag_dirty = 0

\* ------------------------------------------------------------ locking and modes: claims
\* lckpwdf was called and succeeded
LockTaken ==
    \E i \in 1..Len(lock_trace) : lock_trace[i] = LockCall("lckpwdf", TRUE)

\* C11: unless opt_nolock is set, every step that changes a file (a staging
\* write, a rename, a chmod or chown, an unlink) is taken with the lock
\* held before and after it; and a run whose lckpwdf failed, which returns
\* 3, leaves every file as it was.
C11_WritesUnderLock ==
    [][ /\ (fs' # fs /\ ~opt_nolock) => (lock_held /\ lock_held')
        /\ (pc' = "exit" /\ exit_code' = 3) => (fs' = fs0 /\ ~lock_held') ]_vars

\* a file is being replaced while the lock is held
C11_Witness ==
    /\ ~opt_nolock
    /\ lock_held
    /\ pc = "pfp_copy_filemodes"
    /\ fs # fs0

\* C12: with opt_dryrun set neither lckpwdf nor ulckpwdf is called, no file
\* is created, written, renamed or unlinked, and commit_files never
\* returns failure, whatever the value of flag_dirty.
C12_DryRunTouchesNothing ==
    opt_dryrun =>
        /\ lock_trace = << >>
        /\ ~lock_held
        /\ fs = fs0
        /\ pc \notin {"commit_failed", "write_passwd", "write_shadow", "write_group"}
        /\ ~InPublish

\* a dry run with changes pending is past commit_files
C12_Witness ==
    /\ opt_dryrun
    /\ ~opt_sanity
    /\ flag_dirty > 0
    /\ pc = "unlock"

\* C13 as stated: whenever a dry run exits, its exit code is flag_dirty.
C13_DryRunExitIsDirty ==
    (opt_dryrun /\ pc = "exit") => exit_code = flag_dirty

\* an error message of read_passwd, read_group or read_shadow
IsReadError(msg) ==
    \/ msg.op = "read"
    \/ msg.op = "open" /\ msg.file.ext = ""
ReadFailed == \E i \in 1..Len(stderr) : IsReadError(stderr[i])

\* C13, amended: a dry run without opt_sanity in which every file was
\* read returns flag_dirty, the number of changes the six passes made.
C13_DryRunExitIsDirtyWhenLoaded ==
    (opt_dryrun /\ ~opt_sanity /\ ~ReadFailed /\ pc = "exit") => exit_code = flag_dirty

\* a dry run returned a change count that is not zero
C13_Witness ==
    /\ opt_dryrun
    /\ ~opt_sanity
    /\ pc = "exit"
    /\ flag_dirty > 0
    /\ exit_code = flag_dirty

\* ------------------------------------------------------------ commit_files: claims
\* the three paths commit_files uses for a live file
PathsOf(file) ==
    {Path(file, ""), Path(file, WRITE_EXTENSION), Path(file, UNLINK_EXTENSION)}

\* the step changes one of the paths of the file
Touches(file) == \E p \in PathsOf(file) : fs'[p] # fs[p]

\* an error message of write_passwd, write_shadow, write_group or
\* put_file_in_place about the file
IsCommitError(msg, file) ==
    /\ msg.file.base = file
    /\ \/ msg.op \in PublishErrors
       \/ msg.op \in {"open", "write", "close"} /\ msg.file.ext = WRITE_EXTENSION
CommitErrorOn(file) == \E i \in 1..Len(stderr) : IsCommitError(stderr[i], file)
CommitError == \E file \in LiveFiles : CommitErrorOn(file)

\* the live files that commit_files handles after the file
Later(file) ==
    IF file = sys_passwd THEN {sys_shadow, sys_group}
    ELSE IF file = sys_shadow THEN {sys_group}
    ELSE {}

\* C14: commit_files goes from the accounts to the credentials, which it
\* writes only when system_shadow is not empty, and then to the groups, each
\* store being started when the publish of the one before it has ended with
\* success; a step on a store's paths is taken only while that store is
\* written or put in place; and once a stage or a publish has failed, no
\* path of a later store is changed: put_file_in_place undoes what it can
\* for the store that failed, and main returns 4.
C14_OrderAndGate ==
    [][ /\ pc' = "write_passwd" => pc = "commit"
        /\ pc' = "write_shadow" =>
              /\ pc = "pfp_unlink_uf" /\ target = Path(sys_passwd, "")
              /\ system_shadow # << >>
              /\ ~CommitError'
        /\ pc' = "write_group" =>
              /\ pc = "pfp_unlink_uf"
              /\ target = Path(IF system_shadow # << >> THEN sys_shadow ELSE sys_passwd, "")
              /\ ~CommitError'
        /\ Touches(sys_passwd) => (pc = "write_passwd" \/ target.base = sys_passwd)
        /\ Touches(sys_shadow) => (pc = "write_shadow" \/ target.base = sys_shadow)
        /\ Touches(sys_group) => (pc = "write_group" \/ target.base = sys_group)
        /\ \A file \in LiveFiles :
              CommitErrorOn(file)' =>
                  /\ \A later \in Later(file) : \A p \in PathsOf(later) : fs'[p] = fs0[p]
                  /\ \/ pc' \in {"commit_failed", "exit"}
                     \/ /\ pc' \in {"pfp_unlink_source", "pfp_restore", "pfp_drop_uf"}
                        /\ target'.base = file
                  /\ pc' = "exit" => exit_code' = 4 ]_vars

\* the accounts and the credentials were replaced, and the publish of the
\* groups failed
C14_Witness ==
    /\ pc = "exit"
    /\ exit_code = 4
    /\ system_shadow # << >>
    /\ CommitErrorOn(sys_group)
    /\ fs[Path(sys_passwd, "")] # fs0[Path(sys_passwd, "")]

\* C15: when flag_dirty is zero commit_files returns 1 and changes no file:
\* nothing is staged and nothing is renamed.
C15_CleanCommitIsNoOp ==
    flag_dirty = 0 =>
        /\ fs = fs0
        /\ pc \notin {"commit_failed", "write_passwd", "write_shadow", "write_group"}
        /\ ~InPublish
        /\ pc = "exit" => exit_code # 4

\* commit_files returned with nothing to do, in a run that would write
C15_Witness ==
    /\ flag_dirty = 0
    /\ ~opt_dryrun
    /\ ~opt_sanity
    /\ pc = "unlock"

\* C16: once a read of a master file or a live file has failed (for the
\* credentials: other than by the file being absent), main has returned 2:
\* no pass of the reconciler has run, lckpwdf was not called and every file
\* is as it was.
C16_ReadFailureAborts ==
    ReadFailed =>
        /\ pc = "exit"
        /\ exit_code = 2
        /\ flag_dirty = 0
        /\ lock_trace = << >>
        /\ fs = fs0
        /\ system_groups = << >> \/ stderr[1].file = Path(sys_group, "")

\* the read of the live group file failed after the other four files
\* were read
C16_Witness ==
    /\ pc = "exit"
    /\ exit_code = 2
    /\ stderr = << Msg("read", Path(sys_group, "")) >>
    /\ system_accounts # << >>
    /\ system_groups # << >>

\* C17 as stated: when the credential file is absent and the run proceeds
\* (every other file is read), system_shadow is empty, no path of the
\* credential file is ever created, and main does not return 2.
C17_AbsentShadowNeverExits2 ==
    (~fs0[Path(sys_shadow, "")].exists /\ ~ReadFailed) =>
        /\ system_shadow = << >>
        /\ \A p \in PathsOf(sys_shadow) : ~fs[p].exists
        /\ pc = "exit" => exit_code # 2

\* C17, amended: when the credential file is absent, system_shadow is
\* empty, no path of the credential file is ever created, no message is
\* printed about it, and main returns 2 only for a failed read of another
\* file or, with opt_dryrun, for a flag_dirty of 2.
C17_AbsentShadowIsNoError ==
    ~fs0[Path(sys_shadow, "")].exists =>
        /\ system_shadow = << >>
        /\ \A p \in PathsOf(sys_shadow) : ~fs[p].exists
        /\ pc # "write_shadow"
        /\ \A i \in 1..Len(stderr) : stderr[i].file.base # sys_shadow
        /\ (pc = "exit" /\ exit_code = 2) =>
               (ReadFailed \/ (opt_dryrun /\ ~opt_sanity /\ flag_dirty = 2))

\* without a credential file the accounts and the groups were replaced
\* and main returned 0
C17_Witness ==
    /\ ~fs0[Path(sys_shadow, "")].exists
    /\ pc = "exit"
    /\ exit_code = 0
    /\ fs[Path(sys_passwd, "")] # fs0[Path(sys_passwd, "")]
    /\ fs[Path(sys_group, "")] # fs0[Path(sys_group, "")]

\* the exit code of the failure a message reports
CodeOf(msg) ==
    IF IsReadError(msg) THEN 2
    ELSE IF msg.op = "lock" THEN 3
    ELSE IF msg.op = "unlock" THEN 5
    ELSE 4

\* C18: without opt_dryrun main returns 0 when no read, lock, commit or
\* unlock failed, and otherwise the code of the first failure: 2 for a
\* read, 3 for the lock, 4 for the commit, 5 for the unlock.
C18_ExitCodeIsFirstFailure ==
    (~opt_dryrun /\ pc = "exit") =>
        exit_code = IF stderr = << >> THEN 0 ELSE CodeOf(stderr[1])

\* the commit failed and then the unlock failed: main returned 4
C18_Witness ==
    /\ ~opt_dryrun
    /\ pc = "exit"
    /\ exit_code = 4
    /\ Len(stderr) >= 2
    /\ stderr[Len(stderr)].op = "unlock"

\* C19: once the stage or the publish of a store has failed, its staging
\* file does not exist.
C19_StagingFileGone ==
    \A file \in LiveFiles :
        (pc \in {"commit_failed", "exit"} /\ CommitErrorOn(file))
            => ~fs[Path(file, WRITE_EXTENSION)].exists

\* C20: when put_file_in_place returns 1 the destination holds the entries
\* of the list that was staged, completely written, with the permission
\* bits and the owner and group the destination had before.
C20_PublishedKeepsModes ==
    [][ (pc = "pfp_unlink_uf" /\ pc' # "commit_failed") =>
            fs'[target] = File(Entries(ListOf(target.base)), TRUE,
                               fs0[target].mode, fs0[target].owner) ]_vars

\* the group file, which was not root's, was replaced
C20_Witness ==
    /\ pc = "exit"
    /\ exit_code = 0
    /\ fs0[Path(sys_group, "")].owner = "root:staff"
    /\ fs[Path(sys_group, "")].owner = "root:staff"
    /\ fs[Path(sys_group, "")].mode = "0664"
    /\ fs[Path(sys_group, "")].content # fs0[Path(sys_group, "")].content

\* ------------------------------------------------------------ main and the lists: claims
\* main has read the five files
Loaded ==
    pc \in {"new_accounts", "old_accounts", "changed_accounts", "new_groups", "old_groups",
            "changed_groups", "reconciled", "crashed"}
        \/ (pc = "exit" /\ exit_code # 2)

Added(list, loaded) == { n \in Nodes(list) : n.name \notin Names(loaded) }

\* C22: noautoadd(id) is true exactly when FL_NOAUTOADD is set for the ID,
\* and process_new_entries adds no master entry whose ID has FL_NOAUTOADD.
C22_NoAutoAddRespected ==
    /\ \A n \in Nodes(master_accounts) \cup Nodes(master_groups) :
          noautoadd(n.id) = scan_users(n.id, FL_NOAUTOADD)
    /\ pc = "old_accounts" =>
          \A n \in Added(system_accounts, loaded_accounts) : ~scan_users(n.id, FL_NOAUTOADD)
    /\ pc = "old_groups" =>
          \A n \in Added(system_groups, loaded_groups) : ~scan_users(n.id, FL_NOAUTOADD)

\* the IDs of a list are in ascending order; the wildcard entries have
\* the ID INT_MAX and so are last
Sorted(list) == \A i, j \in 1..Len(list) : i < j => list[i].id <= list[j].id

\* C24: the account and group lists, master and live, are in ascending
\* order of ID in every state.
C24_ListsSorted ==
    /\ Sorted(master_accounts)
    /\ Sorted(master_groups)
    /\ Sorted(system_accounts)
    /\ Sorted(system_groups)

\* the number of entries of the list that equal the node
Count(list, node) == Cardinality({ i \in 1..Len(list) : list[i] = node })

\* the list holds the nodes made from the lines, each as often
SameNodes(list, nodes) ==
    /\ Len(list) = Len(nodes)
    /\ \A i \in 1..Len(nodes) : Count(list, nodes[i]) = Count(nodes, nodes[i])

\* C25: add_node loses no entry: the list read_passwd or read_group builds
\* with it holds a node for every line of the file, and the list after
\* process_new_entries holds every entry it held before.
C25_AddNodeKeepsAll ==
    [][ /\ (pc = "read_sys_passwd" /\ pc' = "read_sys_shadow") =>
              SameNodes(system_accounts',
                        [i \in 1..Len(fs[Path(sys_passwd, "")].content) |->
                            passwd_node(fs[Path(sys_passwd, "")].content[i])])
        /\ (pc = "read_sys_group" /\ pc' = "new_accounts") =>
              SameNodes(system_groups',
                        [i \in 1..Len(fs[Path(sys_group, "")].content) |->
                            group_node(fs[Path(sys_group, "")].content[i])])
        /\ pc = "new_accounts" =>
              \A n \in Nodes(system_accounts) :
                  Count(system_accounts', n) >= Count(system_accounts, n)
        /\ pc = "new_groups" =>
              \A n \in Nodes(system_groups) :
                  Count(system_groups', n) >= Count(system_groups, n) ]_vars

\* list is sub with some entries removed: the first entries of sub that
\* can be matched, in order, are all of them
RECURSIVE Embeds(_, _)
Embeds(sub, list) ==
    IF sub = << >> THEN TRUE
    ELSE IF list = << >> THEN FALSE
    ELSE IF Head(sub) = Head(list) THEN Embeds(Tail(sub), Tail(list))
    ELSE Embeds(sub, Tail(list))

\* the number of fields in which the entries of two lists of one length differ
AccountDiffs(old, new) ==
    Cardinality({ << i, f >> \in (1..Len(old)) \X {"pw_uid", "pw_gid", "pw_gecos", "pw_dir",
                                                  "pw_shell"} :
                    new[i].d[f] # old[i].d[f] })
GroupDiffs(old, new) ==
    Cardinality({ i \in 1..Len(old) : new[i].d.gr_gid # old[i].d.gr_gid })

\* C26: flag_dirty counts the changes: process_new_entries only adds
\* entries and counts one for each, process_old_entries only removes
\* entries and counts one for each, process_changed_accounts and
\* process_changed_groups count one for each field they give another
\* value; and after the six passes flag_dirty is zero exactly when the live
\* lists are the loaded ones.
C26_DirtyCountsChanges ==
    [][ /\ pc = "new_accounts" =>
              /\ Embeds(system_accounts, system_accounts')
              /\ flag_dirty' - flag_dirty = Len(system_accounts') - Len(system_accounts)
        /\ pc = "new_groups" =>
              /\ Embeds(system_groups, system_groups')
              /\ flag_dirty' - flag_dirty = Len(system_groups') - Len(system_groups)
        /\ pc = "old_accounts" =>
              /\ Embeds(system_accounts', system_accounts)
              /\ flag_dirty' - flag_dirty = Len(system_accounts) - Len(system_accounts')
        /\ pc = "old_groups" =>
              /\ Embeds(system_groups', system_groups)
              /\ flag_dirty' - flag_dirty = Len(system_groups) - Len(system_groups')
        /\ pc = "changed_accounts" =>
              /\ Len(system_accounts') = Len(system_accounts)
              /\ flag_dirty' - flag_dirty = AccountDiffs(system_accounts, system_accounts')
        /\ pc = "changed_groups" =>
              /\ Len(system_groups') = Len(system_groups)
              /\ flag_dirty' - flag_dirty = GroupDiffs(system_groups, system_groups')
        /\ pc' = "reconciled" =>
              (flag_dirty' = 0 <=>
                  (system_accounts' = loaded_accounts /\ system_groups' = loaded_groups)) ]_vars

\* C27: the six passes leave master_accounts, master_groups and
\* system_shadow as they were read: the credentials list is the one
\* read_shadow built, with no entry for an added account.
C27_MastersAndShadowKept ==
    (Loaded /\ pc # "exit") =>
        /\ master_accounts = read_passwd(<< >>, fs0[Path(master_passwd, "")].content)
        /\ master_groups = read_group(<< >>, fs0[Path(master_group, "")].content)
        /\ system_shadow = (IF fs0[Path(sys_shadow, "")].exists
                            THEN read_shadow(<< >>, fs0[Path(sys_shadow, "")].content)
                            ELSE << >>)

\* an account was added to a system that has credentials
C27_Witness ==
    /\ pc = "reconciled"
    /\ Added(system_accounts, loaded_accounts) # {}
    /\ system_shadow # << >>
    /\ master_accounts # << >>

\* C28: process_old_entries does not read through a null link: when it
\* removes the last entry the loop ends there, and main goes on.
C28_OldEntriesStopsAtEnd ==
    /\ pc = "old_accounts" => ~process_old_entries(system_accounts, master_accounts).ub
    /\ pc = "old_groups" => ~process_old_entries(system_groups, master_groups).ub
    /\ pc # "crashed"

\* C29: ulckpwdf is called only after a call of lckpwdf that succeeded,
\* and at most once.
C29_UnlockOnlyWhenLocked ==
    /\ \A i \in 1..Len(lock_trace) :
          lock_trace[i].call = "ulckpwdf" =>
              \E j \in 1..(i - 1) : lock_trace[j] = LockCall("lckpwdf", TRUE)
    /\ Cardinality({ i \in 1..Len(lock_trace) : lock_trace[i].call = "ulckpwdf" }) <= 1

\* ------------------------------------------------------------ the legacy program
\* update-passwd 0.5 reads the live files with getpwent and getgrent, in
\* file order, and checks them before it compares them with the masters.

\* the IDs getpwent and getgrent return, in file order
pw_uids(file) == [i \in 1..Len(fs[file].content) |-> fs[file].content[i].pw_uid]
gr_gids(file) == [i \in 1..Len(fs[file].content) |-> fs[file].content[i].gr_gid]

\* one loop of sanity_check from entry i on, count being the last ID below
\* 100 seen: the index of the entry the loop returns -1 at, 0 when it ends
RECURSIVE sanity_loop(_, _, _)
sanity_loop(ids, i, count) ==
    IF i > Len(ids) THEN 0
    ELSE IF count > ids[i] THEN i
    ELSE sanity_loop(ids, i + 1, IF ids[i] < 100 THEN ids[i] ELSE count)

\* sanity_check: /etc/passwd first, then /etc/group with count reset
sanity_check ==
    IF sanity_loop(pw_uids(Path(sys_passwd, "")), 1, 0) # 0
    THEN [value |-> -1, file |-> sys_passwd]
    ELSE IF sanity_loop(gr_gids(Path(sys_group, "")), 1, 0) # 0
    THEN [value |-> -1, file |-> sys_group]
    ELSE [value |-> 0, file |-> ""]

\* the live files the legacy program is run on: entries of the files
\* themselves, no NIS wildcard lines
LegacyRuns ==
    { Inputs(NoFile, NoFile, Plain(p), NoFile, Plain(g)) :
        p \in { f \in SysPasswdFiles : \A i \in 1..Len(f) : ~IsWildcard(f[i].pw_name) },
        g \in { f \in SysGroupFiles : \A i \in 1..Len(f) : ~IsWildcard(f[i].gr_name) } }

\* opt_sanity is the legacy do_sanity (-s)
InitLegacy ==
    /\ fs \in LegacyRuns
    /\ opt_sanity \in BOOLEAN
    /\ opt_nolock = FALSE
    /\ opt_dryrun = FALSE
    /\ may_fail = FALSE
    /\ fs0 = fs
    /\ pass = 1
    /\ master_accounts = << >>
    /\ master_groups = << >>
    /\ system_accounts = << >>
    /\ system_shadow = << >>
    /\ system_groups = << >>
    /\ flag_dirty = 0
    /\ umask = "022"
    /\ lock_held = FALSE
    /\ lock_trace = << >>
    /\ source = NoPath
    /\ target = NoPath
    /\ stderr = << >>
    /\ pc = "sanity_check"
    /\ exit_code = 0

\* the legacy main from its call of sanity_check: exit(-1), status 255,
\* when the check fails, exit(0) after a passed check under -s, and the
\* comparison with the masters otherwise
LegacySanityCheck ==
    /\ pc = "sanity_check"
    /\ LET r == sanity_check
       IN IF r.value # 0
          THEN /\ stderr' = Append(stderr, Msg("sanity_check", r.file))
               /\ pc' = "exit"
               /\ exit_code' = (-1) % 256
          ELSE /\ stderr' = stderr
               /\ pc' = IF opt_sanity THEN "exit" ELSE "compare_passwd"
               /\ exit_code' = 0
    /\ UNCHANGED << opts, masters, lists, flag_dirty, fs, umask, lock, pfp, env >>

NextLegacy == LegacySanityCheck

SpecLegacy == InitLegacy /\ [][NextLegacy]_vars

\* no entry with an ID in 0..99 comes after an entry with a greater ID in
\* 0..99, or after an entry with an ID of 100 or more
ReservedInOrder(ids) ==
    \A i, j \in 1..Len(ids) :
        (i < j /\ ids[j] < 100) => (ids[i] < 100 /\ ids[i] <= ids[j])

SanityChecked == pc # "sanity_check"
SanityPassed == SanityChecked /\ ~(pc = "exit" /\ exit_code # 0)

\* C30: the legacy sanity_check succeeds only if, in file order, the
\* entries with IDs 0..99 are in ascending order and none of them comes
\* after an entry with an ID of 100 or more, in the account file and in
\* the group file; on every other pair of files it fails.
C30_SanityCheckIsOrderCheck ==
    SanityChecked =>
        (SanityPassed <=> /\ ReservedInOrder(pw_uids(Path(sys_passwd, "")))
                          /\ ReservedInOrder(gr_gids(Path(sys_group, ""))))

\* ------------------------------------------------------------ the entry buffer
\* The strings of a copied entry are written one after the other into the
\* new node's buf.  A string is its length in bytes and what it holds for
\* sprintf, which gets it as the format: "text" has no percent sign, "%%"
\* has one doubled percent sign, "%" one single percent sign.
NSS_BUFLEN_PASSWD == 1024

Str(len, fmt) == [len |-> len, fmt |-> fmt]

\* sprintf(buf + idx, field): the string written and the count returned; a
\* doubled percent sign of the format is written as one
sprintf(format) ==
    IF format.fmt = "%%"
    THEN [out |-> Str(format.len - 1, "%"), ret |-> format.len - 1]
    ELSE [out |-> format, ret |-> format.len]

\* the copy and the value of idx at the test against the buffer's size
copy_passwd(node) ==
    LET name == sprintf(node.d.pw_name)
        passwd == sprintf(node.d.pw_passwd)
        gecos == sprintf(node.d.pw_gecos)
        dir == sprintf(node.d.pw_dir)
        shell == sprintf(node.d.pw_shell)
    IN [newnode |-> [t |-> node.t, name |-> node.name, id |-> node.id,
                     d |-> [pw_name |-> name.out, pw_passwd |-> passwd.out,
                            pw_uid |-> node.d.pw_uid, pw_gid |-> node.d.pw_gid,
                            pw_gecos |-> gecos.out, pw_dir |-> dir.out,
                            pw_shell |-> shell.out]],
        idx |-> (name.ret + 1) + (passwd.ret + 1) + (gecos.ret + 1)
                + (dir.ret + 1) + (shell.ret + 1)]

\* gr_name is written a second time after gr_passwd, and points there
copy_group(node) ==
    LET name == sprintf(node.d.gr_name)
        passwd == sprintf(node.d.gr_passwd)
        again == sprintf(node.d.gr_name)
    IN [newnode |-> [t |-> node.t, name |-> node.name, id |-> node.id,
                     d |-> [gr_name |-> again.out, gr_passwd |-> passwd.out,
                            gr_gid |-> node.d.gr_gid, gr_mem |-> node.d.gr_mem]],
        idx |-> (name.ret + 1) + (passwd.ret + 1) + (again.ret + 1)]

\* the lengths of the strings of the master entries copied; every entry is
\* shorter than the NSS_BUFLEN_PASSWD bytes read_passwd and read_group
\* give fgetpwent_r and fgetgrent_r for a line
Formats == {"text", "%%"}
GroupNameLens == {1, 4, 509, 510, 511, 512, 600}
GroupPasswdLens == {0, 1, 13}
GecosLens == {0, 20, 400}
DirLens == {1, 200}
ShellLens == {0, 9, 200}

CopyAccounts ==
    { [t |-> "passwd", name |-> Str(n, "text"), id |-> 50,
       d |-> [pw_name |-> Str(n, "text"), pw_passwd |-> Str(1, "text"),
              pw_uid |-> 50, pw_gid |-> 50, pw_gecos |-> Str(g, f),
              pw_dir |-> Str(d, "text"), pw_shell |-> Str(s, "text")]] :
        n \in {1, 32}, g \in GecosLens, f \in Formats,
        d \in DirLens, s \in ShellLens }

CopyGroups ==
    { [t |-> "group", name |-> Str(n, f), id |-> 50,
       d |-> [gr_name |-> Str(n, f), gr_passwd |-> Str(p, "text"),
              gr_gid |-> 50, gr_mem |-> << >>]] :
        n \in GroupNameLens, f \in Formats, p \in GroupPasswdLens }

\* a string with a doubled percent sign has two bytes at least
WellFormed(str) == str.fmt = "%%" => str.len >= 2

\* One master entry is loaded and the live list is empty:
\* process_new_entries is about to copy the entry.
InitCopy ==
    /\ \/ /\ master_accounts \in { << n >> : n \in { m \in CopyAccounts :
                                            WellFormed(m.d.pw_gecos) } }
          /\ master_groups = << >>
       \/ /\ master_accounts = << >>
          /\ master_groups \in { << n >> : n \in { m \in CopyGroups :
                                          WellFormed(m.d.gr_name) } }
    /\ fs = [f \in Paths |-> NoFile]
    /\ fs0 = fs
    /\ opt_sanity = FALSE
    /\ opt_nolock = FALSE
    /\ opt_dryrun = FALSE
    /\ may_fail = FALSE
    /\ pass = 1
    /\ system_accounts = << >>
    /\ system_shadow = << >>
    /\ system_groups = << >>
    /\ flag_dirty = 0
    /\ umask = "022"
    /\ lock_held = FALSE
    /\ lock_trace = << >>
    /\ source = NoPath
    /\ target = NoPath
    /\ stderr = << >>
    /\ pc = "copy_node"
    /\ exit_code = 0

\* idx is tested after the strings were written: with idx over the size
\* sprintf has written behind the node, and the process is killed by that
\* or gets to exit(100)
Overflowed ==
    /\ pc' \in {"crashed", "exit"}
    /\ IF pc' = "exit"
       THEN /\ stderr' = Append(stderr, Msg("overflow", ""))
            /\ exit_code' = 100
       ELSE UNCHANGED << stderr, exit_code >>
    /\ UNCHANGED << lists, flag_dirty >>

\* the body of process_new_entries's loop for a master account the live
\* list lacks
CopyAccount ==
    /\ pc = "copy_node"
    /\ master_accounts # << >>
    /\ LET r == copy_passwd(master_accounts[1])
       IN IF r.idx > NSS_BUFLEN_PASSWD
          THEN Overflowed
          ELSE /\ system_accounts' = add_node(system_accounts, r.newnode)
               /\ flag_dirty' = flag_dirty + 1
               /\ pc' = "copied"
               /\ UNCHANGED << system_shadow, system_groups, stderr, exit_code >>
    /\ UNCHANGED << opts, masters, fs, umask, lock, pfp, env >>

\* the same for a master group
CopyGroup ==
    /\ pc = "copy_node"
    /\ master_groups # << >>
    /\ LET r == copy_group(master_groups[1])
       IN IF r.idx > NSS_BUFLEN_PASSWD
          THEN Overflowed
          ELSE /\ system_groups' = add_node(system_groups, r.newnode)
               /\ flag_dirty' = flag_dirty + 1
               /\ pc' = "copied"
               /\ UNCHANGED << system_accounts, system_shadow, stderr, exit_code >>
    /\ UNCHANGED << opts, masters, fs, umask, lock, pfp, env >>

NextCopy == CopyAccount \/ CopyGroup

SpecCopy == InitCopy /\ [][NextCopy]_vars

\* the bytes the strings of an entry need in a buffer, terminators included
Need(node) ==
    IF node.t = "passwd"
    THEN (node.d.pw_name.len + 1) + (node.d.pw_passwd.len + 1)
         + (node.d.pw_gecos.len + 1) + (node.d.pw_dir.len + 1)
         + (node.d.pw_shell.len + 1)
    ELSE (node.d.gr_name.len + 1) + (node.d.gr_passwd.len + 1)

Copied == master_accounts \o master_groups
Copies == system_accounts \o system_groups

\* C23: copying an entry whose strings with their terminators need more
\* than the buffer's capacity ends the process with the overflow message
\* and exit code 100; copying one that fits, exact fit included, puts a
\* copy with every field of the entry unchanged into the live list.
C23_CopyFitsOrAborts ==
    pc # "copy_node" =>
        IF Need(Copied[1]) > NSS_BUFLEN_PASSWD
        THEN pc = "exit" /\ exit_code = 100 /\ Copies = << >>
        ELSE pc = "copied" /\ Copies = << Copied[1] >>

====
